---- MODULE Spec2Model ----
(***************************************************************************)
(* A model of glyphs2ufo's casting module (Lib/glyphs2ufo/casting.py):      *)
(* the schema returned by get_type_structure, the field converters, the     *)
(* recursive walker cast_data and the post-pass cast_custom_data.           *)
(*                                                                          *)
(* Python values are tagged records.  A string is a sequence of one-        *)
(* character strings, so that the converters parse it as the code does.     *)
(***************************************************************************)
EXTENDS Integers, Sequences, FiniteSets, TLC

VARIABLES
    data,       \* the raw tree handed to cast_data: the root record
    orig,       \* the tree as it was when the current top-level call began
    stack,      \* the frames of the nested cast_data calls, innermost last
    pc,         \* "idle", "running", "done" (returned) or "failed" (raised)
    pass,       \* the number of top-level cast_data calls made so far
    order,      \* the order in which types.items() yields the keys of a schema
    lazyMap,    \* the interpreter's map builtin is lazy (Python 3) or eager (Python 2)
    custom      \* cast_custom_data: "none" (not called), "ok" or "raised", and the tree before it

vars == <<data, orig, stack, pc, pass, order, lazyMap, custom>>

(***************************************************************************)
(* Python values                                                            *)
(***************************************************************************)
StrV(s) == [t |-> "str", s |-> s]
IntV(n) == [t |-> "int", n |-> n]
BoolV(b) == [t |-> "bool", b |-> b]
\* a float that is not integral: m / 10^e with e > 0 and m not a multiple of 10
FloatV(m, e) == [t |-> "float", m |-> m, e |-> e]
ListV(l) == [t |-> "list", l |-> l]
\* a dict that is a value (kerning, userData): a function from keys to values
DictV(d) == [t |-> "dict", d |-> d]
\* a list of dict records, as found under a sub-schema key
Recs(r) == [t |-> "recs", r |-> r]
DateTime(f) == [t |-> "datetime", f |-> f]
None == [t |-> "none"]
\* the object map(f, it) of an interpreter whose map is lazy
MapObject(f, it) == [t |-> "map", f |-> f, it |-> it]
\* the outcome of a call that raises
Raise == [t |-> "raise"]

Raises(v) == v.t = "raise"

(***************************************************************************)
(* Characters and literals                                                  *)
(***************************************************************************)
Digits == {"0", "1", "2", "3", "4", "5", "6", "7", "8", "9"}

DigitVal(c) ==
    CASE c = "0" -> 0 [] c = "1" -> 1 [] c = "2" -> 2 [] c = "3" -> 3
      [] c = "4" -> 4 [] c = "5" -> 5 [] c = "6" -> 6 [] c = "7" -> 7
      [] c = "8" -> 8 [] c = "9" -> 9

HexDigits == Digits \cup {"a", "b", "c", "d", "e", "f", "A", "B", "C", "D", "E", "F"}

HexVal(c) ==
    CASE c \in Digits -> DigitVal(c)
      [] c \in {"a", "A"} -> 10 [] c \in {"b", "B"} -> 11
      [] c \in {"c", "C"} -> 12 [] c \in {"d", "D"} -> 13
      [] c \in {"e", "E"} -> 14 [] c \in {"f", "F"} -> 15

Whitespace == {" ", "\t", "\n"}

RECURSIVE Pow10(_)
Pow10(k) == IF k <= 0 THEN 1 ELSE 10 * Pow10(k - 1)

Slice(s, a, b) == IF a > b THEN <<>> ELSE SubSeq(s, a, b)

RECURSIVE LStrip(_)
LStrip(s) ==
    IF Len(s) > 0 /\ s[1] \in Whitespace THEN LStrip(Tail(s)) ELSE s

RECURSIVE RStrip(_)
RStrip(s) ==
    IF Len(s) > 0 /\ s[Len(s)] \in Whitespace
    THEN RStrip(SubSeq(s, 1, Len(s) - 1)) ELSE s

Strip(s) == RStrip(LStrip(s))

\* the first index >= i of s whose character is not in class (Len(s) + 1 if none)
RECURSIVE Span(_, _, _)
Span(s, i, class) ==
    IF i <= Len(s) /\ s[i] \in class THEN Span(s, i + 1, class) ELSE i

\* s carries the literal lit at index i
StartsWith(s, i, lit) ==
    /\ i + Len(lit) - 1 <= Len(s)
    /\ \A k \in 1..Len(lit) : s[i + k - 1] = lit[k]

RECURSIVE ParseBase(_, _)
ParseBase(s, base) ==
    IF Len(s) = 0 THEN 0
    ELSE ParseBase(SubSeq(s, 1, Len(s) - 1), base) * base + HexVal(s[Len(s)])

HasSign(u) == Len(u) > 0 /\ u[1] \in {"+", "-"}
SignOf(u) == IF Len(u) > 0 /\ u[1] = "-" THEN -1 ELSE 1
Unsigned(u) == IF HasSign(u) THEN Tail(u) ELSE u

\* an optional sign and one or more decimal digits
IntOfStripped(u) ==
    IF Len(Unsigned(u)) > 0 /\ \A i \in 1..Len(Unsigned(u)) : Unsigned(u)[i] \in Digits
    THEN IntV(SignOf(u) * ParseBase(Unsigned(u), 10))
    ELSE Raise

\* int(string): the literal may stand between blanks
IntOfStr(s) == IntOfStripped(Strip(s))

\* int(x): the builtin, on the values the casting module passes to it
PyInt(v) ==
    CASE v.t = "str" -> IntOfStr(v.s)
      [] v.t = "int" -> v
      [] v.t = "bool" -> IntV(IF v.b THEN 1 ELSE 0)
      [] v.t = "float" ->
            IntV(IF v.m >= 0 THEN v.m \div Pow10(v.e) ELSE -((-v.m) \div Pow10(v.e)))
      [] OTHER -> Raise

\* a decimal m * 10^x in lowest terms: an int when it is integral, else a float
RECURSIVE Normal(_, _)
Normal(m, x) ==
    IF m = 0 THEN IntV(0)
    ELSE IF x >= 0 THEN IntV(m * Pow10(x))
    ELSE IF m % 10 = 0 THEN Normal(m \div 10, x + 1)
    ELSE FloatV(m, -x)

\* the exponent part of a float literal u from index i2 on, empty or
\* e [sign] digits up to the end of u: the exponent, or Raise
Exponent(u, i2) ==
    IF i2 = Len(u) + 1 THEN IntV(0)
    ELSE IF u[i2] \notin {"e", "E"} THEN Raise
    ELSE IntOfStripped(Slice(u, i2 + 1, Len(u)))

\* the literal u whose mantissa has the digits ip before and fp after the point
NumOfParts(u, ip, fp, x) ==
    IF Len(ip) + Len(fp) >= 1 /\ ~Raises(x)
    THEN Normal(SignOf(u) * ParseBase(ip \o fp, 10), x.n - Len(fp))
    ELSE Raise

\* the literal u whose integer digits end before i1
NumFrom(u, p0, i1) ==
    IF i1 <= Len(u) /\ u[i1] = "."
    THEN NumOfParts(u, Slice(u, p0, i1 - 1),
                    Slice(u, i1 + 1, Span(u, i1 + 1, Digits) - 1),
                    Exponent(u, Span(u, i1 + 1, Digits)))
    ELSE NumOfParts(u, Slice(u, p0, i1 - 1), <<>>, Exponent(u, i1))

NumOfStripped(u) ==
    NumFrom(u, IF HasSign(u) THEN 2 ELSE 1, Span(u, IF HasSign(u) THEN 2 ELSE 1, Digits))

\* float(string) followed by num's choice between int and float:
\* [sign] digits [. digits] [e [sign] digits], at least one mantissa digit
NumOfStr(s) == NumOfStripped(Strip(s))

(***************************************************************************)
(* Field converters                                                         *)
(***************************************************************************)
\* def default(value)
default(value) == value

\* def truthy(string): bool(int(string))
truthy(string) ==
    LET i == PyInt(string) IN IF Raises(i) THEN Raise ELSE BoolV(i.n # 0)

\* def num(string): float(string), then int when the value is integral
num(string) ==
    CASE string.t = "str" -> NumOfStr(string.s)
      [] string.t \in {"int", "float"} -> string
      [] string.t = "bool" -> IntV(IF string.b THEN 1 ELSE 0)
      [] OTHER -> Raise

\* def hex_int(string): int(string, 16), a TypeError on anything but a string
hex_int(string) ==
    IF string.t # "str" THEN Raise
    ELSE LET u == Strip(string.s)
             d0 == Unsigned(u)
             d == IF StartsWith(d0, 1, <<"0", "x">>) \/ StartsWith(d0, 1, <<"0", "X">>)
                  THEN SubSeq(d0, 3, Len(d0)) ELSE d0
         IN  IF Len(d) > 0 /\ \A i \in 1..Len(d) : d[i] \in HexDigits
             THEN IntV(SignOf(u) * ParseBase(d, 16))
             ELSE Raise

\* the character class [-.e\d] of the vector and node patterns
NumClass == Digits \cup {"-", ".", "e"}

\* re.match of dimension groups ([-.e\d]+) separated by ", ", from index i of s,
\* closed by "}": the sequence of the groups, or <<>> when there is no match
RECURSIVE VectorGroups(_, _, _)
VectorGroups(s, i, dimension) ==
    LET j == Span(s, i, NumClass)
        g == Slice(s, i, j - 1)
    IN  IF j = i THEN <<>>
        ELSE IF dimension = 1
             THEN IF StartsWith(s, j, <<"}">>) THEN <<g>> ELSE <<>>
        ELSE IF ~StartsWith(s, j, <<",", " ">>) THEN <<>>
        ELSE LET rest == VectorGroups(s, j + 2, dimension - 1)
             IN  IF rest = <<>> THEN <<>> ELSE <<g>> \o rest

\* a list of values, or Raise when one of the elements raises
ListOrRaise(l) ==
    IF \E i \in 1..Len(l) : Raises(l[i]) THEN Raise ELSE ListV(l)

\* def vector(string, dimension)
vector(string, dimension) ==
    IF string.t # "str" THEN Raise
    ELSE IF ~StartsWith(string.s, 1, <<"{">>) THEN Raise
    ELSE LET groups == VectorGroups(string.s, 2, dimension)
         IN  IF groups = <<>> THEN Raise
             ELSE ListOrRaise([i \in 1..Len(groups) |-> num(StrV(groups[i]))])

\* def point(string)
point(string) == vector(string, 2)

\* def transform(string)
transform(string) == vector(string, 6)

NodeTypes == << <<"L", "I", "N", "E">>, <<"C", "U", "R", "V", "E">>,
                <<"O", "F", "F", "C", "U", "R", "V", "E">> >>
Smooth == <<" ", "S", "M", "O", "O", "T", "H">>

\* def node(string): X Y TYPE [SMOOTH]
node(string) ==
    IF string.t # "str" THEN Raise
    ELSE LET s == string.s
             j1 == Span(s, 1, NumClass)
             j2 == Span(s, j1 + 1, NumClass)
             ty == {k \in 1..Len(NodeTypes) : StartsWith(s, j2 + 1, NodeTypes[k])}
         IN  IF \/ j1 = 1
                \/ ~StartsWith(s, j1, <<" ">>)
                \/ j2 = j1 + 1
                \/ ~StartsWith(s, j2, <<" ">>)
                \/ ty = {}
             THEN Raise
             ELSE LET k == CHOOSE k \in ty : TRUE
                      after == j2 + 1 + Len(NodeTypes[k])
                  IN  ListOrRaise(<< num(StrV(Slice(s, 1, j1 - 1))),
                                     num(StrV(Slice(s, j1 + 1, j2 - 1))),
                                     StrV(NodeTypes[k]),
                                     IF StartsWith(s, after, Smooth)
                                     THEN StrV(Tail(Smooth)) ELSE None >>)


\* the largest index of s that holds c, 0 when there is none
RECURSIVE RFind(_, _)
RFind(s, c) ==
    IF Len(s) = 0 THEN 0
    ELSE IF s[Len(s)] = c THEN Len(s)
    ELSE RFind(SubSeq(s, 1, Len(s) - 1), c)

IsLeap(y) == (y % 4 = 0 /\ y % 100 # 0) \/ y % 400 = 0

DaysIn(m, y) ==
    CASE m \in {4, 6, 9, 11} -> 30
      [] m = 2 -> IF IsLeap(y) THEN 29 ELSE 28
      [] OTHER -> 31

\* one or two digits of p at index i, followed by the separator sep (or, with
\* sep = <<>>, by the end of p): the number they spell, -1 when they are not there
DateField(p, i, sep) ==
    LET j == Span(p, i, Digits)
    IN  IF j - i \in {1, 2}
           /\ (IF sep = <<>> THEN j = Len(p) + 1 ELSE StartsWith(p, j, sep))
        THEN ParseBase(Slice(p, i, j - 1), 10) ELSE -1

\* datetime.strptime(p, '%Y-%m-%d %H:%M:%S')
StrpTime(p) ==
    IF ~(Len(p) >= 5 /\ Span(p, 1, Digits) = 5 /\ p[5] = "-") THEN Raise
    ELSE LET y == ParseBase(Slice(p, 1, 4), 10)
             mo == DateField(p, 6, <<"-">>)
             d0 == Span(p, 6, Digits) + 1
             \* %d also takes a blank and one digit
             pad == StartsWith(p, d0, <<" ">>) /\ Span(p, d0 + 1, Digits) = d0 + 2
             d1 == IF pad THEN d0 + 1 ELSE d0
             d == DateField(p, d1, <<" ">>)
             h0 == Span(p, Span(p, d1, Digits), Whitespace)
             h == DateField(p, h0, <<":">>)
             m0 == Span(p, h0, Digits) + 1
             mi == DateField(p, m0, <<":">>)
             s0 == Span(p, m0, Digits) + 1
             se == DateField(p, s0, <<>>)
         IN  IF /\ y >= 1
                /\ mo \in 1..12
                /\ d \in 1..DaysIn(mo, y)
                /\ h \in 0..23
                /\ mi \in 0..59
                /\ se \in 0..59
             THEN DateTime(<<y, mo, d, h, mi, se>>)
             ELSE Raise

\* glyphs_datetime, were it to pass on a value that is a datetime already
glyphs_datetime_lenient(string) ==
    IF string.t = "datetime" THEN string
    ELSE IF string.t # "str" THEN Raise
    ELSE StrpTime(Slice(string.s, 1, RFind(string.s, " ") - 1))

\* def glyphs_datetime(string): strptime of string[:string.rfind(' ')]
glyphs_datetime(string) ==
    IF string.t # "str" THEN Raise
    ELSE LET s == string.s
             r == RFind(s, " ")
         IN  StrpTime(IF r = 0 THEN Slice(s, 1, Len(s) - 1) ELSE Slice(s, 1, r - 1))

\* def kerning(kerning_data): masterID -> leftGlyph -> rightGlyph -> int(value)
kerning(kerning_data) ==
    IF kerning_data.t # "dict" THEN Raise
    ELSE LET k == kerning_data.d
             bad == \E m \in DOMAIN k :
                       \/ k[m].t # "dict"
                       \/ \E l \in DOMAIN k[m].d :
                             \/ k[m].d[l].t # "dict"
                             \/ \E r \in DOMAIN k[m].d[l].d :
                                   Raises(PyInt(k[m].d[l].d[r]))
         IN  IF bad THEN Raise
             ELSE DictV([m \in DOMAIN k |->
                     DictV([l \in DOMAIN k[m].d |->
                        DictV([r \in DOMAIN k[m].d[l].d |-> PyInt(k[m].d[l].d[r])])])])

\* descender_val, were it to assert num <= 0
descender_val_nonpositive(string) ==
    IF Raises(PyInt(string)) THEN Raise
    ELSE IF PyInt(string).n <= 0 THEN PyInt(string) ELSE Raise

\* def descender_val(string): int(string), asserted negative
descender_val(string) ==
    LET n == PyInt(string)
    IN  IF Raises(n) THEN Raise ELSE IF n.n < 0 THEN n ELSE Raise

\* def version_minor(string): int(string), asserted within 0..999
version_minor(string) ==
    LET n == PyInt(string)
    IN  IF Raises(n) THEN Raise ELSE IF n.n >= 0 /\ n.n <= 999 THEN n ELSE Raise

\* str.replace(old, new)
RECURSIVE Replace(_, _, _)
Replace(s, old, new) ==
    IF Len(s) = 0 THEN <<>>
    ELSE IF StartsWith(s, 1, old)
         THEN new \o Replace(SubSeq(s, Len(old) + 1, Len(s)), old, new)
    ELSE <<s[1]>> \o Replace(Tail(s), old, new)

replacements ==
    << << <<"\\", "0", "1", "2">>, <<"\n">> >>,
       << <<"\\", "0", "1", "1">>, <<"\t">> >>,
       << <<"\\", "U", "2", "0", "1", "8">>, <<"'">> >>,
       << <<"\\", "U", "2", "0", "1", "9">>, <<"'">> >>,
       << <<"\\", "U", "2", "0", "1", "C">>, <<"\"">> >>,
       << <<"\\", "U", "2", "0", "1", "D">>, <<"\"">> >> >>

RECURSIVE ReplaceEach(_, _)
ReplaceEach(s, n) ==
    IF n = 0 THEN s
    ELSE Replace(ReplaceEach(s, n - 1), replacements[n][1], replacements[n][2])

\* def feature_syntax(string)
feature_syntax(string) ==
    IF string.t # "str" THEN Raise
    ELSE StrV(ReplaceEach(string.s, Len(replacements)))

\* the scalar converter a list converter maps over its input
Apply(f, v) ==
    CASE f = "int" -> PyInt(v)
      [] f = "point" -> point(v)
      [] f = "node" -> node(v)

\* the elements an iteration over v yields (a ListV), Raise when v is not
\* iterable or when producing an element raises
RECURSIVE Iter(_)
Iter(v) ==
    CASE v.t = "list" -> v
      [] v.t = "str" -> ListV([i \in 1..Len(v.s) |-> StrV(<<v.s[i]>>)])
      [] v.t = "map" ->
            LET src == Iter(v.it)
            IN  IF Raises(src) THEN Raise
                ELSE ListOrRaise([i \in 1..Len(src.l) |-> Apply(v.f, src.l[i])])
      [] v.t \in {"int", "bool", "float", "none", "datetime"} -> Raise

\* the builtin map(f, it): a list at once, or an object that converts on demand
PyMap(f, it) ==
    IF it.t \in {"int", "bool", "float", "none", "datetime"} THEN Raise
    ELSE IF lazyMap THEN MapObject(f, it)
    ELSE Iter(MapObject(f, it))

\* def intlist(strlist)
intlist(strlist) == PyMap("int", strlist)

\* def pointlist(strlist)
pointlist(strlist) == PyMap("point", strlist)

\* def nodelist(strlist)
nodelist(strlist) == PyMap("node", strlist)

RECURSIVE NatToStr(_)
NatToStr(n) ==
    IF n < 10 THEN <<CHOOSE c \in Digits : DigitVal(c) = n>>
    ELSE NatToStr(n \div 10) \o NatToStr(n % 10)

\* the builtin str, the schema's converter of the text fields
PyStr(v) ==
    CASE v.t = "str" -> v
      [] v.t = "int" -> StrV(IF v.n < 0 THEN <<"-">> \o NatToStr(-v.n) ELSE NatToStr(v.n))
      [] v.t = "bool" -> StrV(IF v.b THEN <<"T", "r", "u", "e">>
                                      ELSE <<"F", "a", "l", "s", "e">>)
      [] v.t = "none" -> StrV(<<"N", "o", "n", "e">>)

\* the builtin list, the schema's converter of DisplayStrings
PyList(v) == Iter(v)

\* the builtin dict, the schema's converter of userData
PyDict(v) ==
    CASE v.t = "dict" -> v
      [] v.t \in {"str", "list"} ->
            IF Len(Iter(v).l) = 0 THEN DictV(<<>>) ELSE Raise
      [] OTHER -> Raise

\* cur_type(data[key]) for the converter named c
Conv(c, v) ==
    CASE c = "default" -> default(v)
      [] c = "truthy" -> truthy(v)
      [] c = "num" -> num(v)
      [] c = "hex_int" -> hex_int(v)
      [] c = "point" -> point(v)
      [] c = "transform" -> transform(v)
      [] c = "intlist" -> intlist(v)
      [] c = "pointlist" -> pointlist(v)
      [] c = "nodelist" -> nodelist(v)
      [] c = "glyphs_datetime" -> glyphs_datetime(v)
      [] c = "kerning" -> kerning(v)
      [] c = "descender_val" -> descender_val(v)
      [] c = "version_minor" -> version_minor(v)
      [] c = "feature_syntax" -> feature_syntax(v)
      [] c = "str" -> PyStr(v)
      [] c = "int" -> PyInt(v)
      [] c = "list" -> PyList(v)
      [] c = "dict" -> PyDict(v)


(***************************************************************************)
(* The schema                                                               *)
(***************************************************************************)
\* a schema entry whose value is a converter
Leaf(k, c) == [key |-> k, kind |-> "conv", conv |-> c, sub |-> <<>>]
\* a schema entry whose value is a dict: the schema of a list of records
Sub(k, s) == [key |-> k, kind |-> "dict", conv |-> "", sub |-> s]

customParametersTypes == << Leaf("name", "str"), Leaf("value", "default") >>

\* def get_type_structure(): the entries in the order the source writes them
get_type_structure ==
    << Leaf("DisplayStrings", "list"),
       Sub("classes", << Leaf("automatic", "truthy"),
                         Leaf("code", "feature_syntax"),
                         Leaf("name", "str") >>),
       Leaf("copyright", "str"),
       Sub("customParameters", customParametersTypes),
       Leaf("date", "glyphs_datetime"),
       Leaf("designer", "str"),
       Leaf("designerURL", "str"),
       Leaf("disablesAutomaticAlignment", "truthy"),
       Leaf("disablesNiceNames", "truthy"),
       Leaf("familyName", "str"),
       Sub("featurePrefixes", << Leaf("code", "feature_syntax"),
                                 Leaf("name", "str") >>),
       Sub("features", << Leaf("automatic", "truthy"),
                          Leaf("code", "feature_syntax"),
                          Leaf("disabled", "truthy"),
                          Leaf("name", "str"),
                          Leaf("notes", "feature_syntax") >>),
       Sub("fontMaster", << Leaf("alignmentZones", "pointlist"),
                            Leaf("ascender", "int"),
                            Leaf("capHeight", "int"),
                            Sub("customParameters", customParametersTypes),
                            Leaf("descender", "descender_val"),
                            Leaf("horizontalStems", "intlist"),
                            Leaf("id", "str"),
                            Leaf("userData", "dict"),
                            Leaf("verticalStems", "intlist"),
                            Leaf("weight", "str"),
                            Leaf("weightValue", "int"),
                            Leaf("width", "str"),
                            Leaf("widthValue", "int"),
                            Leaf("xHeight", "int") >>),
       Sub("glyphs", << Leaf("glyphname", "str"),
                        Leaf("lastChange", "glyphs_datetime"),
                        Sub("layers", << Sub("anchors", << Leaf("name", "str"),
                                                           Leaf("position", "point") >>),
                                         Leaf("annotations", "default"),
                                         Leaf("associatedMasterId", "str"),
                                         Leaf("background", "default"),
                                         Sub("components", << Leaf("anchor", "str"),
                                                              Leaf("disableAlignment", "truthy"),
                                                              Leaf("locked", "truthy"),
                                                              Leaf("name", "str"),
                                                              Leaf("transform", "transform") >>),
                                         Leaf("guideLines", "default"),
                                         Leaf("hints", "default"),
                                         Leaf("layerId", "str"),
                                         Leaf("leftMetricsKey", "str"),
                                         Leaf("rightMetricsKey", "str"),
                                         Leaf("name", "str"),
                                         Sub("paths", << Leaf("closed", "truthy"),
                                                         Leaf("nodes", "nodelist") >>),
                                         Leaf("width", "num") >>),
                        Leaf("leftKerningGroup", "str"),
                        Leaf("leftMetricsKey", "str"),
                        Leaf("rightKerningGroup", "str"),
                        Leaf("rightMetricsKey", "str"),
                        Leaf("unicode", "hex_int"),
                        Leaf("widthMetricsKey", "str") >>),
       Sub("instances", << Sub("customParameters", customParametersTypes),
                           Leaf("interpolationWeight", "int"),
                           Leaf("interpolationWidth", "int"),
                           Leaf("name", "str"),
                           Leaf("weightClass", "str"),
                           Leaf("widthClass", "str") >>),
       Leaf("kerning", "kerning"),
       Leaf("manufacturer", "str"),
       Leaf("manufacturerURL", "str"),
       Leaf("unitsPerEm", "int"),
       Leaf("userData", "dict"),
       Leaf("versionMajor", "int"),
       Leaf("versionMinor", "version_minor") >>

\* DEFAULTS, were widthValue missing from it
DEFAULTS_NoWidth ==
    [k \in {"interpolationWeight", "interpolationWidth", "weightValue"} |-> IntV(100)]

\* DEFAULTS
DefaultValue == 100
DEFAULTS ==
    [k \in {"interpolationWeight", "interpolationWidth", "widthValue", "weightValue"}
        |-> IntV(DefaultValue)]

(***************************************************************************)
(* The raw tree: a record is a function from its keys to values; a path     *)
(* names a record by the sub-schema keys and the indices that lead to it.   *)
(***************************************************************************)
At(k, n) == [k |-> k, n |-> n]

RECURSIVE Get(_, _)
Get(rec, path) ==
    IF path = <<>> THEN rec
    ELSE Get(rec[path[1].k].r[path[1].n], Tail(path))

RECURSIVE Put(_, _, _)
Put(rec, path, new) ==
    IF path = <<>> THEN new
    ELSE [rec EXCEPT ![path[1].k].r[path[1].n] = Put(@, Tail(path), new)]

\* data[key] = value, on a record that may not have the key yet
SetKey(rec, key, value) ==
    [k \in DOMAIN rec \cup {key} |-> IF k = key THEN value ELSE rec[k]]


(***************************************************************************)
(* The documents the model casts.  Every sequence of records is a run of    *)
(* well-formed records with one chosen record in it, at most MaxRecs long.  *)
(***************************************************************************)
MaxRecs == 2
MaxPasses == 2
MaxRot == 1

\* filler^a \o <<c>> \o filler^b for a + b + 1 <= MaxRecs and c in choices, and <<>>
RecLists(filler, choices) ==
    {<<>>} \cup
    { [i \in 1..(a + 1 + b) |-> IF i = a + 1 THEN c ELSE filler] :
        <<a, b, c>> \in { x \in (0..MaxRecs) \X (0..MaxRecs) \X choices :
                            x[1] + x[2] + 1 <= MaxRecs } }

paramNote == [name |-> StrV(<<"n", "o", "t", "e">>), value |-> StrV(<<"7">>)]
paramOS2 ==
    [name |-> StrV(<<"o", "p", "e", "n", "T", "y", "p", "e", "O", "S", "2", "T", "y", "p", "e">>), value |-> ListV(<<StrV(<<"3">>), StrV(<<"0", "4">>)>>)]
paramOS2Bad ==
    [name |-> StrV(<<"o", "p", "e", "n", "T", "y", "p", "e", "O", "S", "2", "T", "y", "p", "e">>), value |-> ListV(<<StrV(<<"3">>), StrV(<<"x">>)>>)]
paramFsType ==
    [name |-> StrV(<<"f", "s", "T", "y", "p", "e">>), value |-> ListV(<<StrV(<<"3">>)>>)]

masterGood ==
    [id |-> StrV(<<"M", "1">>), ascender |-> StrV(<<"8", "0", "0">>), descender |-> StrV(<<"-", "1", "0">>),
     alignmentZones |-> ListV(<<StrV(<<"{", "8", "0", "0", ",", " ", "1", "0", "}">>), StrV(<<"{", "0", ",", " ", "-", "1", "0", ".", "5", "}">>)>>),
     horizontalStems |-> ListV(<<StrV(<<"8", "0">>), StrV(<<"9", "0">>)>>),
     customParameters |-> Recs(<<paramOS2, paramNote>>),
     userData |-> DictV([note |-> StrV(<<"1">>)]),
     gridLength |-> StrV(<<"1">>)]
masterBare == [id |-> StrV(<<"M", "2">>), weightValue |-> StrV(<<"4", "0", "0">>), width |-> StrV(<<"B", "o", "l", "d">>)]
masterEmpty == [x \in {} |-> None]
masterZero == [id |-> StrV(<<"M", "3">>), descender |-> StrV(<<"0">>), xHeight |-> StrV(<<"5", "0", "0">>)]
masterPositive == [ascender |-> StrV(<<"8", "0", "0">>), descender |-> StrV(<<"1", "0">>), xHeight |-> StrV(<<"x">>)]
masterBadStem ==
    [ascender |-> StrV(<<" ", "7", "0", "0">>), descender |-> StrV(<<"-", "1">>),
     verticalStems |-> ListV(<<StrV(<<"8", "0">>), StrV(<<"x">>), StrV(<<"9", "0">>)>>)]
masterBadZone ==
    [alignmentZones |-> ListV(<<StrV(<<"{", "8", "0", "0", ",", " ", "1", "0", "}">>), StrV(<<"{", "0", ",", "1", ",", "2", "}">>)>>), weightValue |-> StrV(<<"4", "0", "0">>)]

MasterChoices ==
    {masterGood, masterBare, masterEmpty, masterZero, masterPositive,
     masterBadStem, masterBadZone}

layerGood ==
    [layerId |-> StrV(<<"M", "1">>), width |-> StrV(<<"6", "0", "0", ".", "5">>),
     anchors |-> Recs(<<[name |-> StrV(<<"t", "o", "p">>), position |-> StrV(<<"{", "2", "5", "0", ",", " ", "7", "0", "0", "}">>)]>>),
     components |-> Recs(<<[name |-> StrV(<<"A">>), locked |-> StrV(<<"1">>),
                            transform |-> StrV(<<"{", "1", ",", " ", "0", ",", " ", "0", ",", " ", "1", ",", " ", "1", "0", ",", " ", "-", "2", ".", "5", "}">>)]>>),
     paths |-> Recs(<<[closed |-> StrV(<<"1">>),
                       nodes |-> ListV(<<StrV(<<"1", "0", "0", " ", "2", "0", "0", " ", "L", "I", "N", "E">>),
                                         StrV(<<"1", "0", ".", "5", " ", "2", "0", " ", "C", "U", "R", "V", "E", " ", "S", "M", "O", "O", "T", "H">>)>>)]>>),
     visible |-> StrV(<<"1">>)]
layerPlain == [layerId |-> StrV(<<"M", "2">>), width |-> StrV(<<"6", "0", "0">>), name |-> StrV(<<"B", "o", "l", "d">>)]
layerBadAnchor ==
    [layerId |-> StrV(<<"M", "1">>),
     anchors |-> Recs(<<[name |-> StrV(<<"t", "o", "p">>), position |-> StrV(<<"{", "2", "5", "0", ",", " ", "7", "0", "0", "}">>)],
                        [name |-> StrV(<<"b", "o", "t", "t", "o", "m">>), position |-> StrV(<<"{", "2", "5", "0", ",", "0", "}">>)]>>),
     width |-> StrV(<<"6", "0", "0">>)]
layerBadNode ==
    [layerId |-> StrV(<<"M", "1">>),
     paths |-> Recs(<<[closed |-> StrV(<<"0">>),
                       nodes |-> ListV(<<StrV(<<"1", " ", "2", " ", "O", "F", "F", "C", "U", "R", "V", "E">>), StrV(<<"1", " ", "2", " ", "A", "R", "C">>)>>)]>>)]

glyphGood ==
    [glyphname |-> StrV(<<"A">>), unicode |-> StrV(<<"0", "0", "4", "1">>),
     lastChange |-> StrV(<<"2", "0", "1", "5", "-", "0", "6", "-", "0", "8", " ", "0", "9", ":", "5", "3", ":", "0", "3", " ", "+", "0", "0", "0", "0">>),
     layers |-> Recs(<<layerGood, layerPlain>>),
     weightValue |-> StrV(<<"9">>)]
glyphPlain ==
    [glyphname |-> StrV(<<"B">>), leftKerningGroup |-> StrV(<<"B">>), layers |-> Recs(<<layerPlain>>)]
glyphNoLayers == [glyphname |-> StrV(<<"s", "p", "a", "c", "e">>)]
glyphBadUnicode ==
    [glyphname |-> StrV(<<"C">>), unicode |-> StrV(<<"0", "0", "G", "1">>), layers |-> Recs(<<layerPlain>>)]
glyphBadAnchor ==
    [glyphname |-> StrV(<<"D">>), layers |-> Recs(<<layerPlain, layerBadAnchor>>)]
glyphBadNode == [glyphname |-> StrV(<<"E">>), layers |-> Recs(<<layerBadNode>>)]

GlyphChoices ==
    {glyphGood, glyphPlain, glyphNoLayers, glyphBadUnicode, glyphBadAnchor,
     glyphBadNode}

instanceGood ==
    [name |-> StrV(<<"R", "e", "g", "u", "l", "a", "r">>), interpolationWeight |-> StrV(<<"9", "0">>),
     customParameters |-> Recs(<<paramOS2>>)]
instanceBare == [name |-> StrV(<<"B", "o", "l", "d">>), weightClass |-> StrV(<<"B", "o", "l", "d">>)]

\* the fields every document has: two text fields, two ints and a key the
\* schema does not declare
Lean ==
    [familyName |-> StrV(<<"A">>), unitsPerEm |-> StrV(<<"1", "0", "0", "0">>), versionMajor |-> StrV(<<"1">>),
     copyright |-> StrV(<<"G">>), dotappVersion |-> StrV(<<"6", "2", "6">>)]

With(rec, fields) ==
    [k \in DOMAIN rec \cup DOMAIN fields |->
        IF k \in DOMAIN fields THEN fields[k] ELSE rec[k]]

VersionChoices ==
    {StrV(<<"5", "0", "0">>), StrV(<<"0">>), StrV(<<"9", "9", "9">>), StrV(<<"1", "0", "0", "0">>), StrV(<<"-", "1">>), StrV(<<"1", ".", "5">>)}

RootChoices ==
    { [versionMinor |-> v] : v \in VersionChoices } \cup
    { [date |-> StrV(<<"2", "0", "1", "5", "-", "0", "6", "-", "0", "8", " ", "0", "9", ":", "5", "3", ":", "0", "3", " ", "+", "0", "0", "0", "0">>)],
      [date |-> StrV(<<"2", "0", "1", "5", "-", "0", "6", "-", "3", "1", " ", "0", "9", ":", "5", "3", ":", "0", "3", " ", "+", "0", "0", "0", "0">>), versionMinor |-> StrV(<<"1", "0", "0", "0">>)],
      [classes |-> IntV(1)],
      [kerning |-> DictV([M1 |-> DictV([A |-> DictV([B |-> StrV(<<"-", "1", "0">>), C |-> StrV(<<"x">>)])])])],
      [kerning |-> DictV([M1 |-> DictV([A |-> DictV([B |-> StrV(<<"-", "1", "0">>)])])]),
       userData |-> DictV([k |-> StrV(<<"v">>)]),
       DisplayStrings |-> StrV(<<"A", "B">>),
       disablesNiceNames |-> StrV(<<"1">>),
       classes |-> Recs(<<[name |-> StrV(<<"U", "p", "p", "e", "r">>), automatic |-> StrV(<<"0">>),
                           code |-> StrV(<<"A", " ", "\\", "U", "2", "0", "1", "8", "B", "\\", "U", "2", "0", "1", "9", "\\", "0", "1", "2">>)]>>),
       features |-> Recs(<<[name |-> StrV(<<"k", "e", "r", "n">>), code |-> StrV(<<"p", "o", "s", " ", "A", " ", "B", " ", "-", "1", "0", ";">>)]>>),
       instances |-> Recs(<<instanceGood, instanceBare>>)] }

ParamChoices == {paramNote, paramOS2, paramOS2Bad, paramFsType}

Docs ==
    { With(Lean, r) : r \in RootChoices }
    \cup { With(Lean, [fontMaster |-> Recs(l)]) : l \in RecLists(masterBare, MasterChoices) }
    \cup { With(Lean, [glyphs |-> Recs(l)]) : l \in RecLists(glyphPlain, GlyphChoices) }
    \cup { With(Lean, [customParameters |-> Recs(l),
                       fontMaster |-> Recs(<<masterGood>>),
                       instances |-> Recs(<<instanceGood>>)]) :
             l \in RecLists(paramOS2, ParamChoices) }


(***************************************************************************)
(* cast_data                                                                *)
(***************************************************************************)
\* the orders types.items() may yield n keys in: the order of the source or
\* its reverse, begun rot keys later
Orders == [rev : BOOLEAN, rot : 0..MaxRot]

\* the position in the source's order of the i-th key yielded
OrderIndex(n, i) ==
    LET k == ((i - 1 + order.rot) % n) + 1
    IN  IF order.rev THEN n + 1 - k ELSE k

\* a call of cast_data(data, types) on the record at path: i counts the keys
\* yielded so far plus one, j the records of data[key] already cast
Frame(path, types) == [path |-> path, types |-> types, i |-> 1, j |-> 0]

Top == stack[Len(stack)]
\* the record the innermost call works on
Cur == Get(data, Top.path)
\* key, cur_type of the iteration the innermost call is at
Entry == Top.types[OrderIndex(Len(Top.types), Top.i)]

Advance == [stack EXCEPT ![Len(stack)].i = @ + 1, ![Len(stack)].j = 0]

Init ==
    /\ data \in Docs
    /\ orig = data
    /\ stack = <<>>
    /\ pc = "idle"
    /\ pass = 0
    /\ order \in Orders
    /\ lazyMap \in BOOLEAN
    /\ custom = [status |-> "none", pre |-> data]

\* a top-level call cast_data(data): types is None, so the root schema is used
CallCastData ==
    /\ pc \in {"idle", "done"}
    /\ custom.status = "none"
    /\ pass < MaxPasses
    /\ pc' = "running"
    /\ pass' = pass + 1
    /\ orig' = data
    /\ stack' = <<Frame(<<>>, get_type_structure)>>
    /\ UNCHANGED <<data, order, lazyMap, custom>>

Looping == pc = "running" /\ Top.i <= Len(Top.types)

\* AbsentKey, were it to break out of the loop at a key with no default
AbsentKeyBreaks ==
    /\ Looping
    /\ Entry.key \notin DOMAIN Cur
    /\ data' = IF Entry.key \in DOMAIN DEFAULTS
               THEN Put(data, Top.path, SetKey(Cur, Entry.key, DEFAULTS[Entry.key]))
               ELSE data
    /\ stack' = IF Entry.key \in DOMAIN DEFAULTS THEN Advance
                ELSE [stack EXCEPT ![Len(stack)].i = Len(Top.types) + 1]
    /\ UNCHANGED <<orig, pc, pass, order, lazyMap, custom>>

\* AbsentKey, were it data[key] = DEFAULTS.get(key)
AbsentKeyStoresNone ==
    /\ Looping
    /\ Entry.key \notin DOMAIN Cur
    /\ data' = Put(data, Top.path,
                   SetKey(Cur, Entry.key,
                          IF Entry.key \in DOMAIN DEFAULTS
                          THEN DEFAULTS[Entry.key] ELSE None))
    /\ stack' = Advance
    /\ UNCHANGED <<orig, pc, pass, order, lazyMap, custom>>

\* if key not in data: data[key] = DEFAULTS[key], or pass on a KeyError; continue
AbsentKey ==
    /\ Looping
    /\ Entry.key \notin DOMAIN Cur
    /\ data' = IF Entry.key \in DOMAIN DEFAULTS
               THEN Put(data, Top.path, SetKey(Cur, Entry.key, DEFAULTS[Entry.key]))
               ELSE data
    /\ stack' = Advance
    /\ UNCHANGED <<orig, pc, pass, order, lazyMap, custom>>

\* ConvertKey, were it to call the converter and drop what it returns
ConvertKeyDiscards ==
    /\ Looping
    /\ Entry.key \in DOMAIN Cur
    /\ Entry.kind = "conv"
    /\ \E value \in {Conv(Entry.conv, Cur[Entry.key])} :
          IF Raises(value)
          THEN pc' = "failed" /\ stack' = stack
          ELSE pc' = pc /\ stack' = Advance
    /\ UNCHANGED <<data, orig, pass, order, lazyMap, custom>>

\* ConvertKey, were it to catch what the converter raises and go on
ConvertKeySwallows ==
    /\ Looping
    /\ Entry.key \in DOMAIN Cur
    /\ Entry.kind = "conv"
    /\ \E value \in {Conv(Entry.conv, Cur[Entry.key])} :
          data' = IF Raises(value) THEN data
                  ELSE Put(data, Top.path, SetKey(Cur, Entry.key, value))
    /\ stack' = Advance
    /\ UNCHANGED <<orig, pc, pass, order, lazyMap, custom>>

\* data[key] = cur_type(data[key]); a converter that raises ends the cast
ConvertKey ==
    /\ Looping
    /\ Entry.key \in DOMAIN Cur
    /\ Entry.kind = "conv"
    /\ \E value \in {Conv(Entry.conv, Cur[Entry.key])} :
          IF Raises(value)
          THEN /\ pc' = "failed"
               /\ UNCHANGED <<data, stack>>
          ELSE /\ data' = Put(data, Top.path, SetKey(Cur, Entry.key, value))
               /\ stack' = Advance
               /\ pc' = pc
    /\ UNCHANGED <<orig, pass, order, lazyMap, custom>>

\* EnterRecord, were the loop never to move on from a record
EnterRecordAgain ==
    /\ Looping
    /\ Entry.key \in DOMAIN Cur
    /\ Entry.kind = "dict"
    /\ Cur[Entry.key].t = "recs"
    /\ Top.j < Len(Cur[Entry.key].r)
    /\ stack' = stack \o <<Frame(Top.path \o <<At(Entry.key, Top.j + 1)>>, Entry.sub)>>
    /\ UNCHANGED <<data, orig, pc, pass, order, lazyMap, custom>>

\* for cur_data in data[key]: cast_data(cur_data, dict(cur_type)), the next record
EnterRecord ==
    /\ Looping
    /\ Entry.key \in DOMAIN Cur
    /\ Entry.kind = "dict"
    /\ Cur[Entry.key].t = "recs"
    /\ Top.j < Len(Cur[Entry.key].r)
    /\ stack' = [stack EXCEPT ![Len(stack)].j = @ + 1]
                  \o <<Frame(Top.path \o <<At(Entry.key, Top.j + 1)>>, Entry.sub)>>
    /\ UNCHANGED <<data, orig, pc, pass, order, lazyMap, custom>>

\* for cur_data in data[key]: the records are exhausted
LeaveList ==
    /\ Looping
    /\ Entry.key \in DOMAIN Cur
    /\ Entry.kind = "dict"
    /\ Cur[Entry.key].t = "recs"
    /\ Top.j = Len(Cur[Entry.key].r)
    /\ stack' = Advance
    /\ UNCHANGED <<data, orig, pc, pass, order, lazyMap, custom>>

\* for cur_data in data[key]: data[key] is not iterable, a TypeError
NotIterable ==
    /\ Looping
    /\ Entry.key \in DOMAIN Cur
    /\ Entry.kind = "dict"
    /\ Cur[Entry.key].t \in {"int", "bool", "float", "none", "datetime"}
    /\ pc' = "failed"
    /\ UNCHANGED <<data, orig, stack, pass, order, lazyMap, custom>>

\* the loop over types.items() is over: cast_data returns to its caller
Return ==
    /\ pc = "running"
    /\ Top.i > Len(Top.types)
    /\ stack' = SubSeq(stack, 1, Len(stack) - 1)
    /\ pc' = IF Len(stack) = 1 THEN "done" ELSE pc
    /\ UNCHANGED <<data, orig, pass, order, lazyMap, custom>>

(***************************************************************************)
(* cast_custom_data                                                         *)
(***************************************************************************)
OS2Type == <<"o", "p", "e", "n", "T", "y", "p", "e", "O", "S", "2", "T", "y", "p", "e">>

\* CustomLoop, were it to convert the value of every entry, whatever its name
RECURSIVE CustomLoopAnyName(_, _)
CustomLoopAnyName(params, k) ==
    IF k > Len(params) THEN [params |-> params, status |-> "ok"]
    ELSE IF Raises(PyMap("int", params[k]["value"]))
         THEN [params |-> params, status |-> "raised"]
    ELSE CustomLoopAnyName([params EXCEPT ![k]["value"] = PyMap("int", @)], k + 1)

\* the loop over data['customParameters'] from its k-th entry on: the entries
\* as it leaves them, and whether it raised
RECURSIVE CustomLoop(_, _)
CustomLoop(params, k) ==
    IF k > Len(params) THEN [params |-> params, status |-> "ok"]
    ELSE IF "name" \notin DOMAIN params[k] THEN [params |-> params, status |-> "raised"]
    ELSE IF params[k]["name"] # StrV(OS2Type) THEN CustomLoop(params, k + 1)
    ELSE IF "value" \notin DOMAIN params[k] THEN [params |-> params, status |-> "raised"]
    ELSE LET value == PyMap("int", params[k]["value"])
         IN  IF Raises(value) THEN [params |-> params, status |-> "raised"]
             ELSE CustomLoop([params EXCEPT ![k]["value"] = value], k + 1)

\* def cast_custom_data(data), called once the document has been cast
CastCustomData ==
    /\ pc = "done"
    /\ custom.status = "none"
    /\ IF "customParameters" \notin DOMAIN data
       THEN /\ custom' = [status |-> "raised", pre |-> data]
            /\ data' = data
       ELSE LET res == CustomLoop(data["customParameters"].r, 1)
            IN  /\ custom' = [status |-> res.status, pre |-> data]
                /\ data' = [data EXCEPT !["customParameters"].r = res.params]
    /\ UNCHANGED <<orig, stack, pc, pass, order, lazyMap>>

Step ==
    \/ AbsentKey
    \/ ConvertKey
    \/ EnterRecord
    \/ LeaveList
    \/ NotIterable
    \/ Return

Next ==
    \/ CallCastData
    \/ Step
    \/ CastCustomData

Spec == Init /\ [][Next]_vars

(***************************************************************************)
(* What the claims speak of                                                 *)
(***************************************************************************)
\* the calls cast_data makes on a tree: the root with the root schema and,
\* through every sub-schema key that holds records, each record with the
\* sub-schema, at every nesting level
RECURSIVE Visited(_, _, _)
Visited(tree, path, types) ==
    LET rec == Get(tree, path)
        subs == { i \in DOMAIN types :
                    /\ types[i].kind = "dict"
                    /\ types[i].key \in DOMAIN rec
                    /\ rec[types[i].key].t = "recs" }
    IN  {[path |-> path, types |-> types]} \cup
        UNION { UNION { Visited(tree, path \o <<At(types[i].key, n)>>, types[i].sub) :
                          n \in 1..Len(rec[types[i].key].r) } : i \in subs }

Calls == Visited(orig, <<>>, get_type_structure)

Entries(types) == {types[i] : i \in DOMAIN types}
Declared(types) == {e.key : e \in Entries(types)}
Leaves(types) == {e \in Entries(types) : e.kind = "conv"}

\* the tree is as cast_data left it: cast_custom_data has not run on it
Uncustomized == custom.status = "none"

\* the keys the innermost call has been through (all but the one it is at)
Yielded(f) == {f.types[OrderIndex(Len(f.types), i)] : i \in 1..(f.i - 1)}
Frames == {stack[n] : n \in DOMAIN stack}

\* C1: after cast_data returns without failure, every record reached through
\* the schema holds, at every key its schema level declares as a scalar
\* converter and that the record had before the call, converter(original value).
C1_ConvertedEverywhere ==
    (pc = "done" /\ Uncustomized) =>
        \A c \in Calls : \A e \in Leaves(c.types) :
            e.key \in DOMAIN Get(orig, c.path) =>
                /\ e.key \in DOMAIN Get(data, c.path)
                /\ Get(data, c.path)[e.key] = Conv(e.conv, Get(orig, c.path)[e.key])

\* a cast has returned on a tree with records at the fourth nesting level and
\* with two records in one sequence
C1_Witness ==
    /\ pc = "done" /\ pass = 1 /\ Uncustomized
    /\ \E c \in Calls : Len(c.path) = 3 /\ c.path[1].n = 2
    /\ data # orig

DefaultKeys == {"interpolationWeight", "interpolationWidth", "widthValue", "weightValue"}

\* what C2 requires of a key the record did not have before the call
AbsentHandled(c, e) ==
    e.key \notin DOMAIN Get(orig, c.path) =>
        IF e.key \in DefaultKeys
        THEN e.key \in DOMAIN Get(data, c.path) /\ Get(data, c.path)[e.key] = IntV(100)
        ELSE e.key \notin DOMAIN Get(data, c.path)

\* C2: a key the schema level declares and the record lacks holds the int 100
\* after the cast when it is one of the four keys of the defaults table, is
\* still absent otherwise (a sub-schema key too), and raises no failure: so it
\* is for every key of a cast that returned, for every key a running or failed
\* cast has been through, and a failure is always at a key the record has.
C2_AbsentKeys ==
    /\ (pc = "done" /\ Uncustomized) =>
          \A c \in Calls : \A e \in Entries(c.types) : AbsentHandled(c, e)
    /\ pc \in {"running", "failed"} =>
          \A f \in Frames : \A e \in Yielded(f) : AbsentHandled(f, e)
    /\ pc = "failed" => Entry.key \in DOMAIN Get(orig, Top.path)

\* a cast has returned on a tree with a master that lacked weightValue and a
\* sub-schema key (customParameters), and with the root lacking glyphs
C2_Witness ==
    /\ pc = "done" /\ pass = 1 /\ Uncustomized
    /\ "glyphs" \notin DOMAIN orig
    /\ \E c \in Calls :
          /\ Len(c.path) = 1 /\ c.path[1].k = "fontMaster"
          /\ {"weightValue", "customParameters"} \cap DOMAIN Get(orig, c.path) = {}
          /\ Get(data, c.path)["weightValue"] = IntV(100)

\* C10: cast_data touches declared keys only: in every record it visits a key
\* the schema level does not declare keeps its value, none is added or removed,
\* a defaults-table key appears only where the level declares it, and a
\* sub-schema key keeps a sequence of as many records, in the same places.
C10_Frame ==
    Uncustomized =>
        \A c \in Calls :
            LET before == Get(orig, c.path)
                after == Get(data, c.path)
            IN  /\ DOMAIN before \subseteq DOMAIN after
                /\ DOMAIN after \ DOMAIN before \subseteq DefaultKeys \cap Declared(c.types)
                /\ \A k \in DOMAIN before \ Declared(c.types) : after[k] = before[k]
                /\ \A e \in Entries(c.types) \ Leaves(c.types) :
                      (e.key \in DOMAIN before /\ before[e.key].t = "recs") =>
                          /\ after[e.key].t = "recs"
                          /\ Len(after[e.key].r) = Len(before[e.key].r)

\* a cast has returned on a tree whose root and glyph records have keys their
\* schema levels do not declare (a glyph's weightValue among them), after
\* a default was put into a master
C10_Witness ==
    /\ pc = "done" /\ pass = 1 /\ Uncustomized
    /\ "dotappVersion" \in DOMAIN data
    /\ \E c \in Calls :
          /\ Len(c.path) = 1 /\ c.path[1].k = "glyphs"
          /\ "weightValue" \in DOMAIN Get(orig, c.path)
          /\ \E k \in DOMAIN Get(orig, c.path) : Get(data, c.path)[k] # Get(orig, c.path)[k]


\* every declared scalar key a record had before the call holds its converted value
AllConverted ==
    \A c \in Calls : \A e \in Leaves(c.types) :
        e.key \in DOMAIN Get(orig, c.path) =>
            Get(data, c.path)[e.key] = Conv(e.conv, Get(orig, c.path)[e.key])

\* C3 as the spec states it: a cast that fails leaves no converted value in the
\* tree (every field of every record is as before the call), and a cast that
\* does not fail converts every declared field that is present.
C3_AllOrNothing ==
    /\ pc = "failed" => data = orig
    /\ (pc = "done" /\ Uncustomized) => AllConverted

\* C3 amended: a converter that fails ends the cast at once and the failure
\* reaches the caller, with no rollback: in the calls in progress the keys
\* gone through before the failure keep their converted values (and their
\* defaults), the key that failed and the scalar keys not yet reached keep
\* their original values, and every other declared scalar field holds either
\* its original or its converted value.  A cast that does not fail converts
\* every declared field that is present.
C3_NoRollback ==
    /\ pc = "failed" =>
          /\ ~ENABLED Step
          /\ Get(data, Top.path)[Entry.key] = Get(orig, Top.path)[Entry.key]
          /\ \A f \in Frames : \A e \in Leaves(f.types) :
                e.key \in DOMAIN Get(orig, f.path) =>
                    Get(data, f.path)[e.key] =
                        IF e \in Yielded(f)
                        THEN Conv(e.conv, Get(orig, f.path)[e.key])
                        ELSE Get(orig, f.path)[e.key]
          /\ \A c \in Calls : \A e \in Leaves(c.types) :
                e.key \in DOMAIN Get(orig, c.path) =>
                    Get(data, c.path)[e.key] \in
                        {Get(orig, c.path)[e.key], Conv(e.conv, Get(orig, c.path)[e.key])}
    /\ (pc = "done" /\ Uncustomized) => AllConverted

\* a first cast has failed after it converted a field of a nested record
C3_Witness ==
    /\ pc = "failed" /\ pass = 1
    /\ Len(stack) >= 2
    /\ \E e \in Yielded(Top) :
          /\ e.kind = "conv"
          /\ e.key \in DOMAIN Get(orig, Top.path)
          /\ Get(data, Top.path)[e.key] # Get(orig, Top.path)[e.key]

\* the tree a cast yields, written without any order of the keys
RECURSIVE Expected(_, _)
Expected(rec, types) ==
    [k \in DOMAIN rec \cup (DefaultKeys \cap Declared(types)) |->
        IF k \notin DOMAIN rec THEN IntV(100)
        ELSE IF k \notin Declared(types) THEN rec[k]
        ELSE LET e == CHOOSE e \in Entries(types) : e.key = k
             IN  IF e.kind = "conv" THEN Conv(e.conv, rec[k])
                 ELSE Recs([n \in 1..Len(rec[k].r) |-> Expected(rec[k].r[n], e.sub)])]

\* some call of the cast meets a value its converter or its loop raises on
SomeFieldFails ==
    \E c \in Calls : \E e \in Entries(c.types) :
        /\ e.key \in DOMAIN Get(orig, c.path)
        /\ IF e.kind = "conv" THEN Raises(Conv(e.conv, Get(orig, c.path)[e.key]))
           ELSE Get(orig, c.path)[e.key].t # "recs"

\* C4: the order in which the keys of a schema are walked does not matter:
\* whether a cast fails, and the tree a cast that succeeds leaves, depend on
\* the tree alone, so two casts of one tree in two orders both fail or both
\* succeed with identical trees.
C4_OrderIndependent ==
    /\ (pc = "done" /\ Uncustomized) =>
          /\ ~SomeFieldFails
          /\ data = Expected(orig, get_type_structure)
    /\ pc = "failed" => SomeFieldFails

\* a cast in an order that is not the source's has returned on a tree with
\* nested records, and has changed it
C4_Witness ==
    /\ pc = "done" /\ pass = 1 /\ Uncustomized
    /\ order.rev /\ order.rot > 0
    /\ \E c \in Calls : Len(c.path) = 3
    /\ data # orig

ListConverters == {"intlist", "pointlist", "nodelist"}
ElementConverter(c) ==
    CASE c = "intlist" -> "int" [] c = "pointlist" -> "point" [] c = "nodelist" -> "node"

\* the elements of the list v, each through the scalar converter of c
Elementwise(c, v) == [i \in 1..Len(v.l) |-> Apply(ElementConverter(c), v.l[i])]

\* C5: a list whose element fails its scalar converter makes cast_data fail;
\* a list none of whose elements fails becomes the sequence of the converted
\* elements, in order.
C5_BadElementFails ==
    (pc = "done" /\ pass = 1 /\ Uncustomized) =>
        \A c \in Calls : \A e \in Leaves(c.types) :
            (e.conv \in ListConverters /\ e.key \in DOMAIN Get(orig, c.path)) =>
                LET elems == Elementwise(e.conv, Get(orig, c.path)[e.key])
                IN  /\ \A i \in DOMAIN elems : ~Raises(elems[i])
                    /\ Iter(Get(data, c.path)[e.key]) = ListV(elems)

Masters == {c \in Calls : Len(c.path) = 1 /\ c.path[1].k = "fontMaster"}

\* C6: in a tree cast without failure every master's descender is an int below
\* 0 and versionMinor an int within 0..999; a descender that spells an int of 0
\* or more, or a versionMinor that spells an int outside 0..999, fails the cast.
C6_NumericInvariants ==
    (pc = "done" /\ Uncustomized) =>
        /\ \A m \in Masters :
              "descender" \in DOMAIN Get(orig, m.path) =>
                  /\ Get(data, m.path)["descender"].t = "int"
                  /\ Get(data, m.path)["descender"].n < 0
                  /\ PyInt(Get(orig, m.path)["descender"]).n < 0
        /\ "versionMinor" \in DOMAIN orig =>
              /\ data["versionMinor"].t = "int"
              /\ data["versionMinor"].n \in 0..999
              /\ PyInt(orig["versionMinor"]).n \in 0..999

\* a first cast has returned on a tree with a descender and a versionMinor
C6_Witness ==
    /\ pc = "done" /\ pass = 1 /\ Uncustomized
    /\ \/ \E m \in Masters : "descender" \in DOMAIN Get(orig, m.path)
       \/ "versionMinor" \in DOMAIN orig


\* the entries of customParameters named openTypeOS2Type, before the call
OS2Entries ==
    IF "customParameters" \in DOMAIN custom.pre
    THEN { n \in DOMAIN custom.pre["customParameters"].r :
             custom.pre["customParameters"].r[n]["name"] = StrV(OS2Type) }
    ELSE {}

\* C7: cast_custom_data turns the value of every top-level customParameters
\* entry named openTypeOS2Type into the ints its strings spell, in order, and
\* leaves every other entry, every name and everything outside the top-level
\* customParameters (the customParameters of masters and instances too) as
\* they were.
C7_CustomData ==
    custom.status # "none" =>
        /\ DOMAIN data = DOMAIN custom.pre
        /\ \A k \in DOMAIN data \ {"customParameters"} : data[k] = custom.pre[k]
        /\ "customParameters" \in DOMAIN data =>
              LET old == custom.pre["customParameters"].r
                  new == data["customParameters"].r
              IN  /\ Len(new) = Len(old)
                  /\ \A n \in DOMAIN old :
                        /\ DOMAIN new[n] = DOMAIN old[n]
                        /\ \A k \in DOMAIN old[n] \ {"value"} : new[n][k] = old[n][k]
                        /\ n \notin OS2Entries => new[n] = old[n]
                        /\ (/\ n \in OS2Entries
                            /\ custom.status = "ok"
                            /\ \A i \in DOMAIN old[n]["value"].l :
                                  ~Raises(IntOfStr(old[n]["value"].l[i].s)))
                           => Iter(new[n]["value"]) =
                                ListV([i \in DOMAIN old[n]["value"].l |->
                                         IntOfStr(old[n]["value"].l[i].s)])

\* cast_custom_data has returned on a tree with an openTypeOS2Type entry and
\* another entry at the top level and an openTypeOS2Type entry in a master
C7_Witness ==
    /\ custom.status = "ok"
    /\ OS2Entries # {}
    /\ OS2Entries # DOMAIN data["customParameters"].r
    /\ \E n \in OS2Entries :
          data["customParameters"].r[n] # custom.pre["customParameters"].r[n]
    /\ "fontMaster" \in DOMAIN data
    /\ \E m \in DOMAIN data["fontMaster"].r :
          /\ "customParameters" \in DOMAIN data["fontMaster"].r[m]
          /\ \E n \in DOMAIN data["fontMaster"].r[m]["customParameters"].r :
                data["fontMaster"].r[m]["customParameters"].r[n]["name"] = StrV(OS2Type)

\* the converters that take nothing but a string
StringOnly == {"point", "transform", "glyphs_datetime", "hex_int"}

\* C8: casting is not idempotent: a cast of a tree that a cast has already
\* returned on fails whenever the tree has a field whose converter takes a
\* string only (a point, a transform, a date, a hex int), and what it fails on
\* is a value that is no longer a string.
C8_SecondCastFails ==
    pass >= 2 =>
        /\ pc = "done" =>
              \A c \in Calls : \A e \in Leaves(c.types) :
                  e.conv \in StringOnly => e.key \notin DOMAIN Get(orig, c.path)
        /\ pc = "failed" => Get(orig, Top.path)[Entry.key].t # "str"

\* a second cast has failed, in a nested record, on the datetime a first cast
\* had made of a string
C8_Witness ==
    /\ pass = 2 /\ pc = "failed"
    /\ Len(stack) = 2
    /\ Entry.conv = "glyphs_datetime"
    /\ Get(data, Top.path)[Entry.key].t = "datetime"

\* the nesting depth of a schema
RECURSIVE Depth(_)
Depth(types) ==
    LET below == {Depth(e.sub) : e \in Entries(types) \ Leaves(types)}
    IN  1 + (IF below = {} THEN 0 ELSE CHOOSE d \in below : \A x \in below : x <= d)

\* the sum of f[n] over n in lo..hi
RECURSIVE Sum(_, _, _)
Sum(f, lo, hi) == IF lo > hi THEN 0 ELSE f[lo] + Sum(f, lo + 1, hi)

\* the steps a call of cast_data on rec with types takes, its return included,
\* and the steps its loop takes for the entry e once j records are done
RECURSIVE Work(_, _), KeyWork(_, _, _)
Work(rec, types) ==
    1 + Sum([i \in DOMAIN types |-> KeyWork(rec, types[i], 0)], 1, Len(types))
KeyWork(rec, e, j) ==
    IF e.key \in DOMAIN rec /\ e.kind = "dict" /\ rec[e.key].t = "recs"
    THEN 1 + Sum([n \in DOMAIN rec[e.key].r |-> 1 + Work(rec[e.key].r[n], e.sub)],
                 j + 1, Len(rec[e.key].r))
    ELSE 1

\* the steps the call of frame f has left, those of the calls it has made apart
Remaining(f) ==
    LET n == Len(f.types)
        rec == Get(data, f.path)
    IN  1 + Sum([i \in 1..n |-> KeyWork(rec, f.types[OrderIndex(n, i)],
                                        IF i = f.i THEN f.j ELSE 0)], f.i, n)

\* the steps a running cast has left
Measure ==
    IF pc = "running" THEN Sum([n \in DOMAIN stack |-> Remaining(stack[n])], 1, Len(stack))
    ELSE 0

\* the innermost call can go on: it returns, or the key it is at is absent, or
\* has a converter, or holds records, or holds what the loop raises on
CanStep ==
    \/ Top.i > Len(Top.types)
    \/ Entry.key \notin DOMAIN Cur
    \/ Entry.kind = "conv"
    \/ Cur[Entry.key].t \in {"recs", "int", "bool", "float", "none", "datetime"}

\* C9: a top-level cast_data call ends: while it runs it can take a step, and
\* every step lowers the number of steps left, which the finite tree fixes.
\* The calls nested at any point are at most as many as the schema has levels,
\* which is 4, however many records the sequences hold.
C9_TerminatesInBoundedDepth ==
    /\ [](Len(stack) <= Depth(get_type_structure) /\ Depth(get_type_structure) = 4)
    /\ [](pc = "running" => CanStep)
    /\ [][pc = "running" => (Measure' < Measure /\ Measure' >= 0)]_vars

\* a cast is four calls deep, in the second record of a sequence of the second
\* record of a sequence
C9_Witness ==
    /\ pc = "running"
    /\ Len(stack) = 4
    /\ Top.path[3].n = 2
    /\ Top.path[2].n = 2

====
